---- MODULE Spec2Model ----
(***************************************************************************)
(* Model of the Tron address lookup service: the POST /address_info        *)
(* handler (src/main.py), the retry-wrapped ledger client                  *)
(* (src/tron_service.py), the TTL cache and the history store.             *)
(*                                                                         *)
(* Every "await" of the code is a yield point, so a request is a process   *)
(* whose pc names the call it is suspended in; an action is the code that  *)
(* runs from the return of that call up to the next await.                 *)
(*                                                                         *)
(* The attempt number and the attempt history of a retry-wrapped call stay *)
(* visible in the state that follows its return, and for good when the     *)
(* call raised; the request's next step drops them (tenacity's retry state *)
(* is gone once the call has returned).                                    *)
(*                                                                         *)
(* The ledger calls of a request are counted by a meter that runs in       *)
(* SpecCalls, where one lookup is alone on the event loop; in the other    *)
(* specifications the meter stands still.                                  *)
(***************************************************************************)
EXTENDS Integers, Sequences, FiniteSets, TLC

\* ---- bounds of the model ------------------------------------------------
NumAddr == 2
MaxTicks == 2
MaxPage == 3
MaxHist == 3

\* Seconds the model clock advances per Tick (two ticks make exactly one ttl).
TickStep == 150

\* ---- program constants --------------------------------------------------
maxsize == 100
ttl == 300
StopMaxAttempt == 3

\* Query(ge=1) for page, Query(ge=1, le=100) for page_size
MinPage == 1
MinPageSize == 1
MaxPageSize == 100

\* Two lookup requests in flight together.
Reqs == {1, 2}
Addresses == 1..NumAddr
Pages == MinPage..MaxPage
PageSizes == {MinPageSize, MinPageSize + 1, MaxPageSize}

\* ---- the ledger's answers -----------------------------------------------
NetworkErrors == {"ConnectionError", "HTTPError"}

\* client.get_account: the account, AddressNotFound, a transport error, or
\* tronpy's BadAddress for a malformed string.
AccountOutcomes == {"ok", "AddressNotFound", "BadAddress"} \cup NetworkErrors

\* client.get_account_resource / get_account_balance: a value, a transport
\* error, or AddressNotFound.
FetchErrors == {"AddressNotFound"} \cup NetworkErrors

\* Account resource messages: keys that are unset are absent from the dict.
Resources ==
    { [freeNetLimit |-> 600],
      [freeNetLimit |-> 600, NetLimit |-> 1000, EnergyLimit |-> 50] }

Balances == {0, 7}

NoResource == [none |-> 0]
NoInfo == [bandwidth |-> -1, energy |-> -1, balance |-> -1]
NoResponse == [status |-> 0, prefix |-> "", msg |-> "", body |-> NoInfo]
NoListing == [status |-> 0, total |-> -1, page |-> 0, page_size |-> 0, data |-> << >>]
NoCalls == [account |-> 0, resource |-> 0, balance |-> 0]

VARIABLES
    now,        \* the clock (seconds): the cache timer and utcnow
    cache,      \* TTLCache: entries [key, value, expires], least recently used first
                \* (with the history field `written`: the time of the write)
    store,      \* table tron_address_info, in insertion order
    pc,         \* per request: the await it is suspended in
    addr,       \* per request: request.address
    vatt,       \* per request: attempt number of the handler's validate_tron_address call
    natt,       \* per request: attempt number of the validate call nested in get_address_info
    fatt,       \* per request: attempt number of get_address_info
    resource,   \* per request: local `resource` of get_address_info
    info,       \* per request: local `info` of the handler
    exc,        \* per request: the exception that ended the handler, "" if none
    response,   \* per request: the HTTP response
    hit,        \* per request: the handler took the cache-hit branch
    vhist,      \* history, per request: how each attempt of the handler's validate call ended
    vres,       \* history, per request: what that call gave the handler ("" while running)
    fhist,      \* history, per request: how each attempt of get_address_info ended
    fres,       \* history, per request: what get_address_info gave the handler
    wrote,      \* history, per request: number of cache writes it made
    added,      \* history, per request: ids of the records its commit inserted
    fetched,    \* history: <<address, triple>> of every get_address_info that returned
    hitage,     \* history, per request: age (s) of the entry its cache hit read, -1 if none
    log,        \* history, per request: the warning and error records it logged
    steps,      \* history, per request: the stages of the handler it has completed
    gpc,        \* GET /recent_requests: the await it is suspended in
    gpage,      \* GET: page
    gsize,      \* GET: page_size
    gtotal,     \* GET: local `total`
    gresponse,  \* GET: the HTTP response
    gN,         \* history: number of records in the store when the GET arrived
    calls       \* meter, per request: ledger calls issued, by kind (runs in SpecCalls)

shared == <<now, cache, store>>
locals == <<pc, addr, vatt, natt, fatt, resource, info, exc, response, hit>>
hist == <<vhist, vres, fhist, fres, wrote, added, fetched, hitage, log, steps>>
gvars == <<gpc, gpage, gsize, gtotal, gresponse, gN>>

vars == <<shared, locals, hist, gvars, calls>>

\* ---- python helpers -----------------------------------------------------

\* dict.get(key, default)
DictGet(d, k, default) == IF k \in DOMAIN d THEN d[k] ELSE default

\* str(e) of the exceptions the model raises
Str(e) == IF e = "ValueError" THEN "Invalid Tron address" ELSE e

\* How an attempt ended, for the histories: any transport error is "net".
Class(o) == IF o \in NetworkErrors THEN "net" ELSE o

\* ---- tenacity @retry ----------------------------------------------------
\* (variant: gives up one attempt early)
RetryDecisionEarly(n, outcome) ==
    IF outcome \in {"True", "False", "ok"} THEN "return"
    ELSE IF outcome \notin NetworkErrors THEN "reraise"
    ELSE IF n + 1 >= StopMaxAttempt THEN "RetryError"
    ELSE "sleep"

\* (variant: retries on every exception)
RetryDecisionAll(n, outcome) ==
    IF outcome \in {"True", "False", "ok"} THEN "return"
    ELSE IF n >= StopMaxAttempt THEN "RetryError"
    ELSE "sleep"

\* (variant: allows one attempt more)
RetryDecisionLate(n, outcome) ==
    IF outcome \in {"True", "False", "ok"} THEN "return"
    ELSE IF outcome \notin NetworkErrors THEN "reraise"
    ELSE IF n >= StopMaxAttempt + 1 THEN "RetryError"
    ELSE "sleep"

\* What the decorator does with the outcome of attempt number n:
\* "return" the value, "reraise" an exception the predicate does not match,
\* "sleep" and try again, or give up with RetryError (reraise is not set).
RetryDecision(n, outcome) ==
    IF outcome \in {"True", "False", "ok"} THEN "return"
    ELSE IF outcome \notin NetworkErrors THEN "reraise"
    ELSE IF n >= StopMaxAttempt THEN "RetryError"
    ELSE "sleep"

\* What the caller of a retry-wrapped function receives once the decorator
\* has decided d (not "sleep") on the outcome of the last attempt.
Delivered(d, outcome) == IF d = "RetryError" THEN "RetryError" ELSE outcome

\* Body of validate_tron_address on the answer o of client.get_account:
\* True, False (AddressNotFound is caught), or the exception it lets through.
ValidateBody(o) ==
    IF o = "ok" THEN "True"
    ELSE IF o = "AddressNotFound" THEN "False"
    ELSE o

\* ---- cachetools.TTLCache ------------------------------------------------
Keys(c) == {c[i].key : i \in 1..Len(c)}

\* expire(time): drop every entry with expires <= time
Expire(c, t) == SelectSeq(c, LAMBDA e : t < e.expires)

\* (variant: membership that ignores the expiry time)
ContainsAnyAge(c, k, t) == k \in Keys(c)

\* key in cache
Contains(c, k, t) == \E i \in 1..Len(c) : c[i].key = k /\ t < c[i].expires

Entry(c, k) == c[CHOOSE i \in 1..Len(c) : c[i].key = k]

\* (variant: a lookup that answers with a default triple)
CachedValueDefault(c, k) == [bandwidth |-> 0, energy |-> 0, balance |-> 1]

\* cache[key] on a live key: the value
CachedValue(c, k) == Entry(c, k).value

Without(c, k) == SelectSeq(c, LAMBDA e : e.key # k)

\* cache[key] on a live key: the key becomes the most recently used
GetItem(c, k) == Without(c, k) \o <<Entry(c, k)>>

\* (variant: never evicts)
EvictNothing(c) == c

\* Cache.__setitem__'s loop: popitem() while the new entry does not fit
RECURSIVE Evict(_)
Evict(c) == IF Len(c) + 1 > maxsize THEN Evict(Tail(c)) ELSE c

\* (variant: every value is stored under the first address)
SetItemOneKey(c, k, v, t) ==
    Without(Expire(c, t), 1) \o
        <<[key |-> 1, value |-> v, expires |-> t + ttl, written |-> t]>>

\* (variant: a write to a key that is live keeps the older entry)
SetItemKeepFirst(c, k, v, t) ==
    IF Contains(c, k, t) THEN Expire(c, t)
    ELSE Evict(Expire(c, t)) \o
            <<[key |-> k, value |-> v, expires |-> t + ttl, written |-> t]>>

\* cache[key] = value at time t
SetItem(c, k, v, t) ==
    LET live == Expire(c, t)
        room == IF k \in Keys(live) THEN Without(live, k) ELSE Evict(live)
    IN  room \o <<[key |-> k, value |-> v, expires |-> t + ttl, written |-> t]>>

\* ---- the handler's responses --------------------------------------------
\* main.py:88-93
ErrorResponse(e) ==
    IF e \in NetworkErrors
    THEN [status |-> 500, prefix |-> "Network error: ", msg |-> Str(e), body |-> NoInfo]
    ELSE [status |-> 500, prefix |-> "Internal server error: ", msg |-> Str(e), body |-> NoInfo]

\* An exception that leaves the handler uncaught: the framework's 500.
UnhandledResponse ==
    [status |-> 500, prefix |-> "", msg |-> "Internal Server Error", body |-> NoInfo]

\* (variant: the rejection is reported as a server error)
InvalidResponseAsServerError ==
    [status |-> 500, prefix |-> "", msg |-> "Invalid Tron address", body |-> NoInfo]

\* main.py:61
InvalidResponse ==
    [status |-> 400, prefix |-> "", msg |-> "Invalid Tron address", body |-> NoInfo]

OkResponse(i) == [status |-> 200, prefix |-> "", msg |-> "", body |-> i]

\* ---- initial state ------------------------------------------------------
InitRequests ==
    /\ pc = [r \in Reqs |-> "idle"]
    /\ addr = [r \in Reqs |-> 0]
    /\ vatt = [r \in Reqs |-> 0]
    /\ natt = [r \in Reqs |-> 0]
    /\ fatt = [r \in Reqs |-> 0]
    /\ resource = [r \in Reqs |-> NoResource]
    /\ info = [r \in Reqs |-> NoInfo]
    /\ exc = [r \in Reqs |-> ""]
    /\ response = [r \in Reqs |-> NoResponse]
    /\ hit = [r \in Reqs |-> FALSE]
    /\ vhist = [r \in Reqs |-> << >>]
    /\ vres = [r \in Reqs |-> ""]
    /\ fhist = [r \in Reqs |-> << >>]
    /\ fres = [r \in Reqs |-> ""]
    /\ wrote = [r \in Reqs |-> 0]
    /\ added = [r \in Reqs |-> {}]
    /\ hitage = [r \in Reqs |-> -1]
    /\ log = [r \in Reqs |-> {}]
    /\ steps = [r \in Reqs |-> << >>]
    /\ calls = [r \in Reqs |-> NoCalls]
    /\ gpc = "idle"
    /\ gpage = 0
    /\ gsize = 0
    /\ gtotal = -1
    /\ gresponse = NoListing
    /\ gN = -1

\* A fresh process: empty cache (main.py:26), empty table (create_tables).
Init ==
    /\ now = 0
    /\ cache = << >>
    /\ store = << >>
    /\ fetched = {}
    /\ InitRequests

\* ---- the histories ------------------------------------------------------
\* The warning and error records of tron_service.py:41, tron_service.py:75,
\* main.py:89 and main.py:92, named by their message; each of them carries the
\* address. (The info records are left out: "Retrying ...: attempt N" of the
\* before_sleep hooks carries neither the address nor the error.)
WarnInvalid == "Invalid Tron address attempted"
ErrFetch == "Failed to retrieve info for address"
ErrNetwork == "Network error for address"
ErrProcessing == "Error processing address"

\* The record the handler's except clauses write for exception e (lines 88-93).
HandlerRecord(e) == IF e \in NetworkErrors THEN ErrNetwork ELSE ErrProcessing

\* Request r logs the records recs.
Logged(r, recs) == log' = [log EXCEPT ![r] = @ \cup recs]

\* Request r has completed the stages done, in that order.
Did(r, done) == steps' = [steps EXCEPT ![r] = @ \o done]

\* ---- the event loop ----------------------------------------------------
\* (variant: a backoff wait that holds the event loop, as time.sleep would)
LoopHeldBySleeper(r) ==
    \A q \in Reqs \ {r} : pc[q] \notin {"vsleep", "fvsleep", "fsleep"}

\* Whether the event loop can run a step of request r (0: the history
\* query). The handlers are coroutines; the ledger calls run in a worker
\* thread (asyncio.to_thread), tenacity sleeps with asyncio.sleep and the
\* store calls are awaited, so a waiting request never holds the loop.
LoopFree(r) == TRUE

\* (variant: the except clauses delete the address from the cache)
CacheRolledBack(c, k) == Without(c, k)

\* The cache after the handler's except clauses ran for a request of address
\* k (lines 88-93): they log and raise, the cache is not touched.
CacheAfterError(c, k) == c

\* ---- POST /address_info -------------------------------------------------

\* The request arrives; the handler awaits validate_tron_address (attempt 1).
Post(r) ==
    /\ pc[r] = "idle"
    /\ \E a \in Addresses : addr' = [addr EXCEPT ![r] = a]
    /\ pc' = [pc EXCEPT ![r] = "validate"]
    /\ vatt' = [vatt EXCEPT ![r] = 1]
    /\ UNCHANGED <<natt, fatt, resource, info, exc, response, hit>>
    /\ UNCHANGED <<shared, hist, gvars>>

\* The handler's except clauses run on exception e (lines 88-93).
Fail(r, e) ==
    /\ pc' = [pc EXCEPT ![r] = "done"]
    /\ exc' = [exc EXCEPT ![r] = e]
    /\ response' = [response EXCEPT ![r] = ErrorResponse(e)]

\* An attempt of the handler's validate_tron_address call ends (line 60); on
\* True the handler goes on to the cache check, with no await in between.
ValidateReturn(r) ==
    /\ pc[r] = "validate"
    /\ \E o \in AccountOutcomes :
        LET v == ValidateBody(o)
            d == RetryDecision(vatt[r], v)
        IN
        /\ vhist' = [vhist EXCEPT ![r] = Append(@, Class(v))]
        /\ vres' = [vres EXCEPT ![r] = IF d = "sleep" THEN "" ELSE Delivered(d, v)]
        /\ IF d = "sleep" THEN
               /\ pc' = [pc EXCEPT ![r] = "vsleep"]
               /\ UNCHANGED <<cache, natt, fatt, info, exc, response, hit>>
               /\ UNCHANGED <<hitage, log, steps>>
           ELSE IF d # "return" THEN
               \* line 60 is outside the try block: nothing catches it
               /\ pc' = [pc EXCEPT ![r] = "done"]
               /\ exc' = [exc EXCEPT ![r] = Delivered(d, v)]
               /\ response' = [response EXCEPT ![r] = UnhandledResponse]
               /\ Did(r, <<"validate", "response">>)
               /\ UNCHANGED <<cache, natt, fatt, info, hit>>
               /\ UNCHANGED <<hitage, log>>
           ELSE IF v = "False" THEN
               /\ pc' = [pc EXCEPT ![r] = "done"]
               /\ response' = [response EXCEPT ![r] = InvalidResponse]
               /\ Logged(r, {WarnInvalid})
               /\ Did(r, <<"validate", "response">>)
               /\ UNCHANGED <<cache, natt, fatt, info, exc, hit>>
               /\ UNCHANGED hitage
           ELSE IF Contains(cache, addr[r], now) THEN
               \* lines 64-66, then db.add and await db.commit()
               /\ info' = [info EXCEPT ![r] = CachedValue(cache, addr[r])]
               /\ cache' = GetItem(cache, addr[r])
               /\ hit' = [hit EXCEPT ![r] = TRUE]
               /\ hitage' = [hitage EXCEPT ![r] = now - Entry(cache, addr[r]).written]
               /\ pc' = [pc EXCEPT ![r] = "commit"]
               /\ Did(r, <<"validate", "check">>)
               /\ UNCHANGED <<natt, fatt, exc, response>>
               /\ UNCHANGED log
           ELSE
               \* line 68: await get_address_info, whose line 61 awaits validate
               /\ pc' = [pc EXCEPT ![r] = "fvalidate"]
               /\ fatt' = [fatt EXCEPT ![r] = 1]
               /\ natt' = [natt EXCEPT ![r] = 1]
               /\ Did(r, <<"validate", "check">>)
               /\ UNCHANGED <<cache, info, exc, response, hit>>
               /\ UNCHANGED <<hitage, log>>
    /\ UNCHANGED <<now, store, addr, vatt, resource>>
    /\ UNCHANGED <<fhist, fres, wrote, added, fetched, gvars>>

\* The backoff wait of the handler's validate call ends: next attempt.
ValidateWake(r) ==
    /\ pc[r] = "vsleep"
    /\ pc' = [pc EXCEPT ![r] = "validate"]
    /\ vatt' = [vatt EXCEPT ![r] = vatt[r] + 1]
    /\ UNCHANGED <<addr, natt, fatt, resource, info, exc, response, hit>>
    /\ UNCHANGED <<shared, hist, gvars>>

\* The body of get_address_info raised e during attempt fatt[r], having
\* logged the records recs: the decorator sleeps for another attempt, or the
\* handler's except clauses run.
FetchRaise(r, e, recs) ==
    LET d == RetryDecision(fatt[r], e) IN
    /\ fhist' = [fhist EXCEPT ![r] = Append(@, Class(e))]
    /\ fres' = [fres EXCEPT ![r] = IF d = "sleep" THEN "" ELSE Delivered(d, e)]
    /\ IF d = "sleep" THEN
           /\ pc' = [pc EXCEPT ![r] = "fsleep"]
           /\ Logged(r, recs)
           /\ UNCHANGED <<exc, response, steps>>
       ELSE
           /\ Fail(r, Delivered(d, e))
           /\ Logged(r, recs \cup {HandlerRecord(Delivered(d, e))})
           /\ Did(r, <<"fetch", "response">>)

\* get_address_info line 61: an attempt of the nested validate call ends.
FetchValidateReturn(r) ==
    /\ pc[r] = "fvalidate"
    /\ \E o \in AccountOutcomes :
        LET v == ValidateBody(o)
            d == RetryDecision(natt[r], v)
        IN
        IF d = "sleep" THEN
            /\ pc' = [pc EXCEPT ![r] = "fvsleep"]
            /\ UNCHANGED <<natt, exc, response, fhist, fres, log, steps>>
        ELSE IF d = "return" /\ v = "True" THEN
            /\ pc' = [pc EXCEPT ![r] = "resource"]
            /\ natt' = [natt EXCEPT ![r] = 0]
            /\ UNCHANGED <<exc, response, fhist, fres, log, steps>>
        ELSE
            \* line 62 raises ValueError on False; an exception passes through;
            \* both happen before the try block of lines 63-76
            /\ natt' = [natt EXCEPT ![r] = 0]
            /\ FetchRaise(r, IF d = "return" THEN "ValueError" ELSE Delivered(d, v),
                          IF v = "False" THEN {WarnInvalid} ELSE {})
    /\ vatt' = [vatt EXCEPT ![r] = 0]
    /\ vhist' = [vhist EXCEPT ![r] = << >>]
    /\ UNCHANGED <<addr, fatt, resource, info, hit>>
    /\ UNCHANGED <<shared, vres, wrote, added, fetched, hitage, gvars>>

\* The backoff wait of the nested validate call ends: next attempt.
FetchValidateWake(r) ==
    /\ pc[r] = "fvsleep"
    /\ pc' = [pc EXCEPT ![r] = "fvalidate"]
    /\ natt' = [natt EXCEPT ![r] = natt[r] + 1]
    /\ UNCHANGED <<addr, vatt, fatt, resource, info, exc, response, hit>>
    /\ UNCHANGED <<shared, hist, gvars>>

\* get_address_info line 64: client.get_account_resource returns or raises
\* (lines 74-76 log and raise again).
ResourceReturn(r) ==
    /\ pc[r] = "resource"
    /\ \/ \E res \in Resources :
            /\ resource' = [resource EXCEPT ![r] = res]
            /\ pc' = [pc EXCEPT ![r] = "balance"]
            /\ UNCHANGED <<exc, response, fhist, fres, log, steps>>
       \/ \E e \in FetchErrors :
            /\ FetchRaise(r, e, {ErrFetch})
            /\ UNCHANGED resource
    /\ UNCHANGED <<addr, vatt, natt, fatt, info, hit>>
    /\ UNCHANGED <<shared, vhist, vres, wrote, added, fetched, hitage, gvars>>

\* The dict get_address_info returns (lines 66-73).
MakeInfo(res, b) ==
    [bandwidth |-> DictGet(res, "NetLimit", 0),
     energy |-> DictGet(res, "EnergyLimit", 0),
     balance |-> b]

\* get_address_info line 65: client.get_account_balance returns or raises; on
\* success the call returns, the handler writes the cache (line 69), adds the
\* row to its session and awaits the commit.
BalanceReturn(r) ==
    /\ pc[r] = "balance"
    /\ \/ \E b \in Balances :
            LET i == MakeInfo(resource[r], b) IN
            /\ info' = [info EXCEPT ![r] = i]
            /\ cache' = SetItem(cache, addr[r], i, now)
            /\ wrote' = [wrote EXCEPT ![r] = @ + 1]
            /\ fetched' = fetched \cup {<<addr[r], i>>}
            /\ fhist' = [fhist EXCEPT ![r] = Append(@, "ok")]
            /\ fres' = [fres EXCEPT ![r] = "ok"]
            /\ pc' = [pc EXCEPT ![r] = "commit"]
            /\ Did(r, <<"fetch", "write">>)
            /\ UNCHANGED <<exc, response, log>>
       \/ \E e \in FetchErrors :
            /\ FetchRaise(r, e, {ErrFetch})
            /\ UNCHANGED <<info, cache, wrote, fetched>>
    /\ resource' = [resource EXCEPT ![r] = NoResource]
    /\ UNCHANGED <<now, store, addr, vatt, natt, fatt, hit>>
    /\ UNCHANGED <<vhist, vres, added, hitage, gvars>>

\* The backoff wait of get_address_info ends: the body runs again from line 61.
FetchWake(r) ==
    /\ pc[r] = "fsleep"
    /\ pc' = [pc EXCEPT ![r] = "fvalidate"]
    /\ fatt' = [fatt EXCEPT ![r] = fatt[r] + 1]
    /\ natt' = [natt EXCEPT ![r] = 1]
    /\ resource' = [resource EXCEPT ![r] = NoResource]
    /\ UNCHANGED <<addr, vatt, info, exc, response, hit>>
    /\ UNCHANGED <<shared, hist, gvars>>

\* (variant: bandwidth and energy change places)
NewRowSwapped(a, i, id, t) ==
    [id |-> id,
     address |-> a,
     bandwidth |-> i.energy,
     energy |-> i.bandwidth,
     balance |-> i.balance,
     timestamp |-> t]

\* The row inserted for db_entry (lines 73-79); the id and the timestamp
\* (models.py: default=datetime.utcnow) are assigned at the flush.
NewRow(a, i, id, t) ==
    [id |-> id,
     address |-> a,
     bandwidth |-> i.bandwidth,
     energy |-> i.energy,
     balance |-> i.balance,
     timestamp |-> t]

\* (variant: the handler answers without waiting for the commit)
RespondBeforeCommit(r) ==
    /\ pc[r] = "commit"
    /\ pc' = [pc EXCEPT ![r] = "done"]
    /\ response' = [response EXCEPT ![r] = OkResponse(info[r])]
    /\ Did(r, <<"response">>)
    /\ UNCHANGED <<addr, vatt, natt, fatt, resource, info, exc, hit>>
    /\ UNCHANGED <<shared, gvars>>
    /\ UNCHANGED <<vhist, vres, fhist, fres, wrote, added, fetched, hitage, log>>

\* await db.commit() (line 80) returns or raises.
CommitReturn(r) ==
    /\ pc[r] = "commit"
    /\ \/ /\ store' = Append(store, NewRow(addr[r], info[r], Len(store) + 1, now))
          /\ added' = [added EXCEPT ![r] = @ \cup {Len(store) + 1}]
          /\ pc' = [pc EXCEPT ![r] = "refresh"]
          /\ Did(r, <<"commit">>)
          /\ UNCHANGED <<exc, response, cache, log>>
       \/ /\ Fail(r, "StoreError")
          /\ cache' = CacheAfterError(cache, addr[r])
          /\ Logged(r, {HandlerRecord("StoreError")})
          /\ Did(r, <<"commit", "response">>)
          /\ UNCHANGED <<store, added>>
    /\ vatt' = [vatt EXCEPT ![r] = 0]
    /\ vhist' = [vhist EXCEPT ![r] = << >>]
    /\ fatt' = [fatt EXCEPT ![r] = 0]
    /\ fhist' = [fhist EXCEPT ![r] = << >>]
    /\ UNCHANGED <<now, addr, natt, resource, info, hit>>
    /\ UNCHANGED <<vres, fres, wrote, fetched, hitage, gvars>>

\* await db.refresh(db_entry) (line 81) returns, and the handler responds
\* (lines 82-87), or raises.
RefreshReturn(r) ==
    /\ pc[r] = "refresh"
    /\ \/ /\ pc' = [pc EXCEPT ![r] = "done"]
          /\ response' = [response EXCEPT ![r] = OkResponse(info[r])]
          /\ Did(r, <<"response">>)
          /\ UNCHANGED <<exc, cache, log>>
       \/ /\ Fail(r, "StoreError")
          /\ cache' = CacheAfterError(cache, addr[r])
          /\ Logged(r, {HandlerRecord("StoreError")})
          /\ Did(r, <<"response">>)
    /\ UNCHANGED <<addr, vatt, natt, fatt, resource, info, hit>>
    /\ UNCHANGED <<now, store, gvars>>
    /\ UNCHANGED <<vhist, vres, fhist, fres, wrote, added, fetched, hitage>>

\* One step of lookup request r.
Lookup(r) ==
    /\ LoopFree(r)
    /\ \/ Post(r)
       \/ ValidateReturn(r)
       \/ ValidateWake(r)
       \/ FetchValidateReturn(r)
       \/ FetchValidateWake(r)
       \/ ResourceReturn(r)
       \/ BalanceReturn(r)
       \/ FetchWake(r)
       \/ CommitReturn(r)
       \/ RefreshReturn(r)

\* ---- GET /recent_requests ----------------------------------------------

\* The request arrives with validated query parameters; the handler awaits
\* the count query (line 122).
GetRecent ==
    /\ gpc = "idle"
    /\ \E k \in Pages, p \in PageSizes :
        /\ gpage' = k
        /\ gsize' = p
    /\ gpc' = "count"
    /\ gN' = Len(store)
    /\ UNCHANGED <<gtotal, gresponse>>
    /\ UNCHANGED <<shared, locals, hist>>

\* The handler's except clause (lines 151-153).
ListingError == [status |-> 500, total |-> -1, page |-> 0, page_size |-> 0, data |-> << >>]

\* select count(*) returns (lines 122-123); the handler awaits the page query.
CountReturn ==
    /\ gpc = "count"
    /\ \/ /\ gtotal' = Len(store)
          /\ gpc' = "select"
          /\ UNCHANGED gresponse
       \/ /\ gpc' = "done"
          /\ gresponse' = ListingError
          /\ UNCHANGED gtotal
    /\ UNCHANGED <<gpage, gsize, gN>>
    /\ UNCHANGED <<shared, locals, hist>>

\* order_by(timestamp.desc()): the orders the store may return the rows in,
\* rows of equal timestamp in any order.
SortedOrders(rows) ==
    {o \in Permutations(1..Len(rows)) :
        \A i, j \in 1..Len(rows) :
            i < j => rows[o[i]].timestamp >= rows[o[j]].timestamp}

\* (variant: pages counted from 0)
OffsetFromZero(page, page_size) == page * page_size

\* offset((page - 1) * page_size)
Offset(page, page_size) == (page - 1) * page_size

\* .offset(off).limit(n) of the ordered rows
Window(ordered, off, n) ==
    SubSeq(ordered, off + 1, IF off + n < Len(ordered) THEN off + n ELSE Len(ordered))

\* datetime.isoformat()
Isoformat(t) == <<"iso", t>>

\* One element of "data" (lines 141-148)
Item(row) ==
    [id |-> row.id,
     address |-> row.address,
     bandwidth |-> row.bandwidth,
     energy |-> row.energy,
     balance |-> row.balance,
     timestamp |-> Isoformat(row.timestamp)]

\* The page query returns (lines 126-133) and the handler responds.
SelectReturn ==
    /\ gpc = "select"
    /\ \/ \E o \in SortedOrders(store) :
            LET ordered == [i \in 1..Len(store) |-> store[o[i]]]
                results == Window(ordered, Offset(gpage, gsize), gsize)
            IN  gresponse' = [status |-> 200,
                              total |-> gtotal,
                              page |-> gpage,
                              page_size |-> gsize,
                              data |-> [i \in 1..Len(results) |-> Item(results[i])]]
       \/ gresponse' = ListingError
    /\ gpc' = "done"
    /\ UNCHANGED <<gpage, gsize, gtotal, gN>>
    /\ UNCHANGED <<shared, locals, hist>>

History ==
    /\ LoopFree(0)
    /\ \/ GetRecent
       \/ CountReturn
       \/ SelectReturn

\* Time passes.
Tick ==
    /\ now < MaxTicks * TickStep
    /\ now' = now + TickStep
    /\ UNCHANGED <<cache, store, locals, hist, gvars, calls>>

\* Concurrent lookups.
Next ==
    \/ \E r \in Reqs : Lookup(r) /\ UNCHANGED calls
    \/ Tick

Spec == Init /\ [][Next]_vars

\* ---- a cache near its capacity ------------------------------------------
\* A process that has just served lookups of other addresses: the cache is
\* one entry short of maxsize, the commits of those lookups failed.
Fillers == (NumAddr + 1)..(NumAddr + maxsize - 1)
FillerInfo == [bandwidth |-> 0, energy |-> 0, balance |-> 7]

InitFull ==
    /\ now = 0
    /\ cache = [i \in 1..(maxsize - 1) |->
                  [key |-> NumAddr + i, value |-> FillerInfo, expires |-> ttl, written |-> 0]]
    /\ store = << >>
    /\ fetched = {<<a, FillerInfo>> : a \in Fillers}
    /\ InitRequests

\* Concurrent lookups with the clock standing still: nothing expires, so
\* only eviction can keep the cache within its bound.
NextFull == \E r \in Reqs : Lookup(r) /\ UNCHANGED calls

SpecFull == InitFull /\ [][NextFull]_vars

\* ---- a store with history -----------------------------------------------
\* A process restarted over a table that holds the rows of earlier lookups,
\* the first j of them made one tick before the others.
InitHist ==
    /\ now = 0
    /\ cache = << >>
    /\ \E k \in 0..MaxHist : \E j \in 0..k :
        store = [i \in 1..k |->
                   NewRow(1 + (i % NumAddr), FillerInfo, i,
                          IF i <= j THEN 0 - TickStep ELSE 0)]
    /\ fetched = {}
    /\ InitRequests

\* One lookup and one history query, concurrently; the rows differ in age
\* from the start, so the clock stands still.
NextHist ==
    \/ Lookup(1) /\ UNCHANGED calls
    \/ History /\ UNCHANGED calls

SpecHist == InitHist /\ [][NextHist]_vars

\* ---- one lookup under the meter -----------------------------------------
\* The ledger call a request suspended at p is waiting for: client.get_account
\* (tron_service.py:38), get_account_resource (:64), get_account_balance (:65).
CallKind(p) ==
    IF p \in {"validate", "fvalidate"} THEN "account"
    ELSE IF p \in {"resource", "balance"} THEN p
    ELSE "none"

\* The step of request r issues the call it is suspended in afterwards.
Metered(r) ==
    calls' = IF CallKind(pc'[r]) = "none" THEN calls
             ELSE [calls EXCEPT ![r][CallKind(pc'[r])] = @ + 1]

\* A process whose cache is empty, or holds an entry for address 1 left by
\* a lookup whose commit failed.
InitCalls ==
    /\ now = 0
    /\ \/ cache = << >> /\ fetched = {}
       \/ /\ cache = <<[key |-> 1, value |-> FillerInfo, expires |-> ttl, written |-> 0]>>
          /\ fetched = {<<1, FillerInfo>>}
    /\ store = << >>
    /\ InitRequests

NextCalls == Lookup(1) /\ Metered(1)

\* The event loop resumes a coroutine once the call or sleep it awaits has
\* ended, and every ledger call, store call and backoff sleep ends: a step
\* of the lookup that can be taken is taken.
SpecCalls == InitCalls /\ [][NextCalls]_vars /\ WF_vars(NextCalls)

\* ---- a lookup that may wait for ever ------------------------------------
\* Lookup 1 and one other request on the event loop: lookup 2 or the history
\* query, whichever arrives.
NextWait ==
    \/ Lookup(1) /\ UNCHANGED calls
    \/ Lookup(2) /\ gpc = "idle" /\ UNCHANGED calls
    \/ History /\ pc[2] = "idle" /\ UNCHANGED calls

\* Nothing is assumed about lookup 1: a call or a backoff sleep it awaits may
\* last for ever. The calls the other request awaits end, and the event loop
\* resumes it when it can run.
SpecWait ==
    /\ Init /\ [][NextWait]_vars
    /\ WF_vars(Lookup(2) /\ gpc = "idle" /\ UNCHANGED calls)
    /\ WF_vars(History /\ pc[2] = "idle" /\ UNCHANGED calls)

\* ---- properties ---------------------------------------------------------

Last(q) == q[Len(q)]
Min(a, b) == IF a < b THEN a ELSE b
Max(a, b) == IF a > b THEN a ELSE b
Triple(row) == [bandwidth |-> row.bandwidth, energy |-> row.energy, balance |-> row.balance]

\* C1: when the handler's validation returns False, the request is answered
\* 400 "Invalid Tron address", get_address_info was never called, the request
\* wrote nothing to the cache and added no record.
C1_InvalidRejected ==
    \A r \in Reqs :
        vres[r] = "False" =>
            /\ pc[r] = "done"
            /\ response[r].status = 400
            /\ response[r].prefix = "" /\ response[r].msg = "Invalid Tron address"
            /\ fatt[r] = 0 /\ fhist[r] = << >> /\ fres[r] = ""
            /\ wrote[r] = 0 /\ ~hit[r]
            /\ added[r] = {}

\* A rejected request next to one that went on to fetch.
C1_Witness ==
    \E r, q \in Reqs : vres[r] = "False" /\ pc[r] = "done" /\ fatt[q] > 0

\* C2: a request that hits the cache makes no upstream fetch call (no
\* get_address_info attempt, no resource or balance call, no cache write) and
\* carries, and answers with, a triple that an earlier get_address_info call
\* returned for its address.
C2_HitAvoidsFetch ==
    \A r \in Reqs :
        hit[r] =>
            /\ fatt[r] = 0 /\ fhist[r] = << >> /\ fres[r] = ""
            /\ natt[r] = 0 /\ resource[r] = NoResource
            /\ pc[r] \in {"commit", "refresh", "done"}
            /\ wrote[r] = 0
            /\ <<addr[r], info[r]>> \in fetched
            /\ response[r].status = 200 => response[r].body = info[r]

\* A cache hit answered 200, after another request fetched the address.
C2_Witness ==
    \E r, q \in Reqs :
        /\ hit[r] /\ response[r].status = 200
        /\ q # r /\ addr[q] = addr[r] /\ fres[q] = "ok"

\* C4: a retry-wrapped call whose first two attempts fail with a network
\* error is still running or has made a third attempt, and when the third
\* attempt succeeds the call returns its result after exactly 3 attempts.
C4_ThirdAttemptSucceeds ==
    \A r \in Reqs :
        /\ (Len(vhist[r]) >= 2 /\ vhist[r][1] = "net" /\ vhist[r][2] = "net")
              => (vres[r] = "" \/ Len(vhist[r]) = 3)
        /\ vhist[r] = <<"net", "net", "True">>
              => (vres[r] = "True" /\ vatt[r] = 3)
        /\ (Len(fhist[r]) >= 2 /\ fhist[r][1] = "net" /\ fhist[r][2] = "net")
              => (fres[r] = "" \/ Len(fhist[r]) = 3)
        /\ fhist[r] = <<"net", "net", "ok">>
              => (fres[r] = "ok" /\ fatt[r] = 3 /\ info[r] # NoInfo)

\* A validate call and a get_address_info call that have just returned from
\* their third attempt.
C4_Witness ==
    \E r, q \in Reqs :
        /\ vhist[r] = <<"net", "net", "True">> /\ vres[r] = "True"
        /\ fhist[q] = <<"net", "net", "ok">> /\ fres[q] = "ok"

\* C5: a retry-wrapped call whose attempts all fail with a network error
\* fails after exactly 3 attempts and raises that network error to its caller.
C5_ExhaustionRaisesNetworkError ==
    \A r \in Reqs :
        /\ vhist[r] = <<"net", "net", "net">>
              => (vatt[r] = 3 /\ vres[r] \in NetworkErrors)
        /\ fhist[r] = <<"net", "net", "net">>
              => (fatt[r] = 3 /\ fres[r] \in NetworkErrors)

\* C6: when the upstream fetch of a request ended in a network-class failure
\* (its last attempt failed with a transport error, or the nested validation
\* ran out of attempts), the answer is 500 "Network error: <message>".
C6_NetworkErrorBranch ==
    \A r \in Reqs :
        (fres[r] \notin {"", "ok"} /\ Last(fhist[r]) \in {"net", "RetryError"})
            => /\ response[r].status = 500
               /\ response[r].prefix = "Network error: "
               /\ response[r].msg \in NetworkErrors

\* C7: a request answered with an error (400 or 500) added no record.
C7_ErrorMeansNoRecord ==
    \A r \in Reqs :
        (pc[r] = "done" /\ response[r].status \in {400, 500}) => added[r] = {}

C8_Inv ==
    /\ \A r \in Reqs :
        /\ Cardinality(added[r]) <= 1
        /\ response[r].status = 200 =>
            /\ Cardinality(added[r]) = 1
            /\ response[r].body # NoInfo
            /\ \A id \in added[r] :
                /\ id \in 1..Len(store)
                /\ store[id].id = id
                /\ store[id].address = addr[r]
                /\ Triple(store[id]) = response[r].body
    /\ \A i \in 1..Len(store) :
        Cardinality({r \in Reqs : i \in added[r]}) = 1

C8_Step ==
    /\ Len(store') >= Len(store)
    /\ \A i \in 1..Len(store) : store'[i] = store[i]

\* C8: a request answered 200 added exactly one record, with its address and
\* the triple of its response, whether it fetched or hit the cache; every
\* record was added by exactly one request; no step changes or removes a record.
C8_OneRecordPerSuccess == []C8_Inv /\ [][C8_Step]_vars

\* Two requests answered 200, one from the cache and one from upstream.
C8_Witness ==
    \E r, q \in Reqs :
        /\ response[r].status = 200 /\ hit[r]
        /\ response[q].status = 200 /\ ~hit[q]
        /\ Len(store) = 2

\* C9: every cache entry holds a triple that a get_address_info call returned
\* for its key; a request writes the cache at most once and only after its
\* own fetch returned; a request whose validation or fetch failed wrote nothing.
C9_NoNegativeCaching ==
    /\ \A i \in 1..Len(cache) : <<cache[i].key, cache[i].value>> \in fetched
    /\ \A r \in Reqs :
        /\ wrote[r] <= 1
        /\ wrote[r] = 1 => fres[r] = "ok"
        /\ (vres[r] \notin {"", "True"} \/ fres[r] \notin {"", "ok"})
              => (wrote[r] = 0 /\ ~hit[r] /\ info[r] = NoInfo)

\* A failed fetch of an address that is not cached, beside a cached one.
C9_Witness ==
    \E r \in Reqs :
        /\ fres[r] \notin {"", "ok"}
        /\ addr[r] \notin Keys(cache)
        /\ cache # << >>

\* C10: the cache never holds more than maxsize entries, one per address.
C10_CacheBounded ==
    /\ Len(cache) <= maxsize
    /\ Cardinality(Keys(cache)) = Len(cache)

\* A full cache from which the oldest entry was evicted (at time 0 nothing
\* has expired, so a missing entry was evicted).
C10_Witness ==
    /\ now = 0
    /\ Len(cache) = maxsize
    /\ NumAddr + 1 \notin Keys(cache)
    /\ \E r, q \in Reqs : r # q /\ wrote[r] = 1 /\ wrote[q] = 1

C3_Ids == {gresponse.data[i].id : i \in 1..Len(gresponse.data)}
C3_Outside == (1..gN) \ C3_Ids
C3_Offset == (gpage - 1) * gsize

\* C3: when the store held N records throughout a history query answered
\* 200, total = N and data holds min(p, max(0, N-(k-1)p)) distinct records of
\* the store, newest first, that occupy offsets (k-1)p.. of an ordering of
\* the store by timestamp descending.
C3_Pagination ==
    (gpc = "done" /\ gresponse.status = 200 /\ Len(store) = gN) =>
        LET data == gresponse.data
            n == Len(data)
        IN
        /\ gresponse.total = gN
        /\ gresponse.page = gpage /\ gresponse.page_size = gsize
        /\ n = Min(gsize, Max(0, gN - C3_Offset))
        /\ Cardinality(C3_Ids) = n
        /\ \A i \in 1..n :
            /\ data[i].id \in 1..gN
            /\ data[i].address = store[data[i].id].address
            /\ Triple(data[i]) = Triple(store[data[i].id])
            /\ data[i].timestamp = Isoformat(store[data[i].id].timestamp)
        /\ \A i, j \in 1..n :
            i < j => store[data[i].id].timestamp >= store[data[j].id].timestamp
        /\ n > 0 =>
            LET newer == {x \in C3_Outside :
                            store[x].timestamp > store[data[n].id].timestamp}
                older == {x \in C3_Outside :
                            store[x].timestamp < store[data[1].id].timestamp}
            IN  /\ newer \cap older = {}
                /\ Cardinality(newer) <= C3_Offset
                /\ C3_Offset <= Cardinality(C3_Outside) - Cardinality(older)

\* The second page of size 2 of a store of 3 records, one of them added by
\* the lookup before the query arrived.
C3_Witness ==
    /\ gpc = "done" /\ gresponse.status = 200 /\ Len(store) = gN
    /\ gN = 3 /\ gpage = 2 /\ gsize = 2
    /\ Len(gresponse.data) = 1
    /\ added[1] # {}

C11_Inv ==
    /\ \A i \in 1..Len(cache) :
        /\ cache[i].written <= now
        /\ cache[i].expires = cache[i].written + ttl
    /\ \A r \in Reqs :
        /\ hit[r] => (0 <= hitage[r] /\ hitage[r] < ttl)
        /\ ~hit[r] => hitage[r] = -1

C11_Step ==
    \A r \in Reqs :
        (~hit[r] /\ hit'[r]) =>
            /\ addr[r] \in Keys(cache) /\ addr[r] \in Keys(cache')
            /\ now' = now
            /\ hitage'[r] = now - Entry(cache, addr[r]).written
            /\ Entry(cache', addr[r]).written = Entry(cache, addr[r]).written
            /\ Entry(cache', addr[r]).expires = Entry(cache, addr[r]).expires

\* C11: the entry a cache hit reads was written less than ttl (300) seconds
\* before the check, every entry expires exactly ttl seconds after its write,
\* and the hit leaves the entry's write time and expiry time as they were.
C11_NoStaleHit == []C11_Inv /\ [][C11_Step]_vars

\* A hit on an entry that was written one tick (150 s) earlier.
C11_Witness ==
    \E r \in Reqs : hit[r] /\ hitage[r] = TickStep /\ response[r].status = 200

\* The awaits inside get_address_info.
FetchStates == {"fvalidate", "fvsleep", "resource", "balance", "fsleep"}

C12_Inv ==
    \A r, q \in Reqs :
        (r # q /\ addr[r] = addr[q] /\ wrote[r] = 1 /\ wrote[q] = 1) =>
            /\ ~hit[r] /\ ~hit[q]
            /\ Cardinality({i \in 1..Len(cache) : cache[i].key = addr[r]}) <= 1
            /\ added[r] \cap added[q] = {}
            /\ \A id \in added[r] :
                store[id].address = addr[r] /\ Triple(store[id]) = info[r]

C12_Step ==
    \A r \in Reqs :
        /\ wrote'[r] # wrote[r] =>
            /\ pc[r] = "balance" /\ pc'[r] = "commit"
            /\ Contains(cache', addr[r], now)
            /\ Entry(cache', addr[r]).value = info'[r]
            /\ Entry(cache', addr[r]).written = now
            /\ \A q \in Reqs \ {r} :
                pc'[q] = pc[q] /\ info'[q] = info[q] /\ hit'[q] = hit[q]
        /\ pc[r] \in FetchStates =>
            /\ pc'[r] \in FetchStates \cup {"commit", "done"}
            /\ ~hit'[r]
            /\ pc'[r] = "commit" => wrote'[r] = wrote[r] + 1

\* C12: fetches are not coalesced. A request that is inside get_address_info
\* stays there until its own fetch ends, whatever another request writes
\* meanwhile; every cache write replaces the entry of its address by the
\* writer's triple (the last writer wins) and disturbs no other request; two
\* requests that both wrote for one address both missed, and the record each
\* added carries its own triple.
C12_NoCoalescing == []C12_Inv /\ [][C12_Step]_vars

\* Two lookups of one address that both fetched, with the clock standing
\* still (so each had missed before the other wrote, and both fetches were in
\* progress together), that got different triples: the cache holds the triple
\* of the later writer and the store one record for each.
C12_Witness ==
    \E r, q \in Reqs :
        /\ r # q /\ addr[r] = addr[q] /\ now = 0
        /\ wrote[r] = 1 /\ wrote[q] = 1
        /\ response[r].status = 200 /\ response[q].status = 200
        /\ info[r] # info[q]
        /\ CachedValue(cache, addr[r]) = info[q]
        /\ Len(store) = 2
        /\ \E i \in added[r], j \in added[q] :
            Triple(store[i]) = info[r] /\ Triple(store[j]) = info[q]

\* Request r fetched, wrote the cache and was then failed by the store.
C13_FailedAfterWrite(r) ==
    wrote[r] = 1 /\ pc[r] = "done" /\ exc[r] = "StoreError"

C13_Inv ==
    \A r \in Reqs :
        C13_FailedAfterWrite(r) =>
            /\ response[r].status = 500
            /\ info[r] # NoInfo
            /\ now < ttl =>
                /\ Contains(cache, addr[r], now)
                /\ \/ CachedValue(cache, addr[r]) = info[r]
                   \/ \E q \in Reqs \ {r} :
                        /\ addr[q] = addr[r] /\ wrote[q] = 1
                        /\ CachedValue(cache, addr[r]) = info[q]

C13_Step ==
    \A r \in Reqs :
        /\ (pc[r] \in {"commit", "refresh"} /\ pc'[r] = "done" /\ exc'[r] = "StoreError")
              => (cache' = cache /\ response'[r].status = 500)
        /\ ( /\ pc[r] = "validate" /\ pc'[r] \notin {"validate", "vsleep", "done"}
             /\ now < ttl
             /\ \E q \in Reqs \ {r} : C13_FailedAfterWrite(q) /\ addr[q] = addr[r] )
              => /\ hit'[r] /\ pc'[r] = "commit"
                 /\ info'[r] = CachedValue(cache, addr[r])

\* C13: a store failure (commit or refresh) leaves the cache as it is and is
\* answered 500; while less than ttl seconds have passed since the process
\* started (so since any write), the cache still holds a fetched triple for
\* the address of a request that wrote and was then failed by the store, and
\* a lookup of that address whose validation passes then is a cache hit.
C13_NoCacheRollback == []C13_Inv /\ [][C13_Step]_vars

\* The commit of the writer failed; another lookup of the address hit the
\* cache one tick after the write and was answered the writer's triple.
C13_Witness ==
    \E r, q \in Reqs :
        /\ r # q /\ addr[r] = addr[q]
        /\ C13_FailedAfterWrite(r) /\ added[r] = {}
        /\ hit[q] /\ hitage[q] = TickStep
        /\ response[q].status = 200 /\ response[q].body = info[r]

\* C14: a lookup that ended because the address is invalid is answered 400,
\* both when the handler's validation returned False and when the validation
\* inside get_address_info did (the ValueError of tron_service.py:62).
C14_InvalidIsClientError ==
    \A r \in Reqs :
        (pc[r] = "done" /\ (vres[r] = "False" \/ fres[r] = "ValueError"))
            => response[r].status = 400

\* C15: a request answered with an error (400 or 500) has logged, before the
\* response, a warning or error record that carries its address: the
\* rejection warning for a 400, a record of the handler or of
\* get_address_info for a 500.
C15_FailuresLogged ==
    \A r \in Reqs :
        /\ (pc[r] = "done" /\ response[r].status = 400) => WarnInvalid \in log[r]
        /\ (pc[r] = "done" /\ response[r].status = 500)
              => log[r] \cap {ErrFetch, ErrNetwork, ErrProcessing} # {}

\* How an attempt ended: with an exception that is not a transport error.
C16_AppError(c) == c \notin {"net", "ok", "True", "False"}

\* C16: an attempt of validate_tron_address or get_address_info that ends
\* with an exception other than a transport error (BadAddress, the
\* ValueError of an invalid address, AddressNotFound of a fetch call, the
\* RetryError of the nested validation) is the last attempt of the call: all
\* attempts before it ended with a transport error, no backoff follows, and
\* the caller receives that very exception; when it is the first attempt the
\* call has made exactly one attempt.
C16_RetryOnlyOnNetworkErrors ==
    \A r \in Reqs :
        /\ \A i \in 1..Len(vhist[r]) :
            /\ i < Len(vhist[r]) => vhist[r][i] = "net"
            /\ C16_AppError(vhist[r][i]) =>
                /\ i = Len(vhist[r]) /\ vatt[r] = i
                /\ vres[r] = vhist[r][i]
                /\ pc[r] = "done" /\ exc[r] = vhist[r][i]
        /\ \A i \in 1..Len(fhist[r]) :
            /\ i < Len(fhist[r]) => fhist[r][i] = "net"
            /\ C16_AppError(fhist[r][i]) =>
                /\ i = Len(fhist[r]) /\ fatt[r] = i
                /\ fres[r] = fhist[r][i]
                /\ pc[r] = "done" /\ exc[r] = fhist[r][i]

\* A validation that raised BadAddress and a fetch that raised
\* AddressNotFound, each on its first and only attempt.
C16_Witness ==
    \E r, q \in Reqs :
        /\ vhist[r] = <<"BadAddress">> /\ vatt[r] = 1 /\ exc[r] = "BadAddress"
        /\ fhist[q] = <<"AddressNotFound">> /\ fatt[q] = 1
        /\ exc[q] = "AddressNotFound"

C17_Step ==
    calls[1].balance >= 1 =>
        /\ calls'[1].resource = calls[1].resource
        /\ calls'[1].account = calls[1].account

\* C17: once get_address_info has issued the balance call, the resource call
\* has succeeded and is not issued again, and the address is not validated
\* again: a balance call that failed is retried alone.
C17_IndependentRetries == [][C17_Step]_vars

\* The place of a stage in the flow of the handler.
C18_Rank(stage) ==
    CASE stage = "validate" -> 1
      [] stage = "check" -> 2
      [] stage = "fetch" -> 3
      [] stage = "write" -> 4
      [] stage = "commit" -> 5
      [] stage = "response" -> 6

C18_Stages(r) == {steps[r][i] : i \in 1..Len(steps[r])}
C18_MissPath == <<"validate", "check", "fetch", "write", "commit", "response">>
C18_HitPath == <<"validate", "check", "commit", "response">>

\* C18: the stages a request has completed are in the order validation,
\* cache check, fetch, cache write, commit, response, each at most once and
\* the validation first; a hit has completed the validation and the check and
\* never fetches or writes; a cache write follows the request's own fetch; a
\* commit follows the check and, for a miss, the cache write; a request
\* answered 200 went through all stages of the hit or of the miss path, and
\* its commit had inserted its record.
C18_StageOrder ==
    \A r \in Reqs :
        LET t == steps[r]
            S == C18_Stages(r)
        IN
        /\ \A i \in 1..(Len(t) - 1) : C18_Rank(t[i]) < C18_Rank(t[i + 1])
        /\ t # << >> => (t[1] = "validate" /\ vres[r] # "")
        /\ "check" \in S => vres[r] = "True"
        /\ hit[r] =>
            /\ SubSeq(t, 1, 2) = <<"validate", "check">>
            /\ S \cap {"fetch", "write"} = {}
        /\ "fetch" \in S => ("check" \in S /\ ~hit[r])
        /\ "write" \in S <=> wrote[r] = 1
        /\ "write" \in S => ("fetch" \in S /\ fres[r] = "ok")
        /\ (pc[r] \in {"commit", "refresh"} \/ "commit" \in S) =>
            /\ "check" \in S
            /\ hit[r] \/ "write" \in S
        /\ added[r] # {} => "commit" \in S
        /\ pc[r] = "done" <=> (t # << >> /\ Last(t) = "response")
        /\ response[r].status = 200 =>
            /\ added[r] # {}
            /\ t = (IF hit[r] THEN C18_HitPath ELSE C18_MissPath)

\* One request answered 200 from the cache and one answered 200 after a
\* fetch, each with all the stages of its path.
C18_Witness ==
    \E r, q \in Reqs :
        /\ response[r].status = 200 /\ steps[r] = C18_HitPath
        /\ response[q].status = 200 /\ steps[q] = C18_MissPath

\* The awaits of a lookup: backoff sleeps, ledger calls, store calls.
C19_Waiting == {"vsleep", "fvsleep", "fsleep", "validate", "fvalidate",
                "resource", "balance", "commit", "refresh"}

C19_CanProceed ==
    /\ pc[2] \in C19_Waiting => ENABLED Lookup(2)
    /\ gpc \in {"count", "select"} => ENABLED History

\* C19: whatever lookup 1 is waiting for, and however long, the other request
\* can take its next step in every state (nothing it needs is held by the
\* waiting lookup), and once it has arrived it is answered.
C19_WaitBlocksOnlyItself ==
    /\ []C19_CanProceed
    /\ (pc[2] # "idle") ~> (pc[2] = "done" /\ response[2] # NoResponse)
    /\ (gpc # "idle") ~> (gpc = "done" /\ gresponse # NoListing)

\* Lookup 1 is in the backoff wait of get_address_info, having missed the
\* cache; lookup 2 of the same address has since written the cache,
\* committed and been answered 200.
C19_Witness ==
    /\ pc[1] = "fsleep" /\ addr[1] = addr[2]
    /\ wrote[2] = 1 /\ response[2].status = 200

C20_Total(c) == c.account + c.resource + c.balance

\* 3 account lookups for the handler's validation, and 3 attempts of
\* get_address_info of at most 3 account lookups, one resource call and one
\* balance call each: 3 + 3 * (3 + 1 + 1) = 18.
C20_MaxLedgerCalls == StopMaxAttempt + StopMaxAttempt * (StopMaxAttempt + 2)

C20_Inv ==
    /\ C20_Total(calls[1]) <= C20_MaxLedgerCalls
    /\ calls[1].account <= StopMaxAttempt + StopMaxAttempt * StopMaxAttempt
    /\ calls[1].resource <= StopMaxAttempt
    /\ calls[1].balance <= calls[1].resource
    /\ vatt[1] <= StopMaxAttempt /\ fatt[1] <= StopMaxAttempt
    /\ natt[1] <= StopMaxAttempt
    /\ (fhist[1] # << >> /\ Last(fhist[1]) = "RetryError") =>
        /\ pc[1] = "done" /\ fres[1] = "RetryError"
        /\ response[1].status = 500
    /\ pc[1] = "done" => response[1] # NoResponse

\* C20: a lookup issues at most 18 ledger calls (at most 12 account lookups,
\* 3 resource calls, and no more balance calls than resource calls), the
\* RetryError of the nested validation ends get_address_info and the request
\* at once, and, every call and every sleep ending, a request that has
\* arrived is eventually answered.
C20_TerminatesWithinBudget ==
    /\ []C20_Inv
    /\ (pc[1] # "idle") ~> (pc[1] = "done" /\ response[1] # NoResponse)

\* A request answered after 18 ledger calls.
C20_Witness ==
    /\ pc[1] = "done"
    /\ C20_Total(calls[1]) = C20_MaxLedgerCalls
    /\ calls[1] = [account |-> 12, resource |-> 3, balance |-> 3]
====
